---- MODULE Spec2Model ----
(***************************************************************************)
(* A model of the Quran-ILM repository: the fixed-window text splitter of  *)
(* rag_ingestion.py, the ingestion pipeline and the datasets / ragChunks / *)
(* GridFS bookkeeping, delete_files of utils/admin_utils.py, the           *)
(* $vectorSearch request of views/chatbot.py and the session state machine *)
(* of views/login.py and Home.py.                                          *)
(*                                                                         *)
(* Positions in a text are 0-based, as in Python; the character at         *)
(* position i of text is text[i + 1].                                      *)
(***************************************************************************)
EXTENDS Integers, Sequences, FiniteSets, TLC

\* ------------------------------------------------------------------------
\* Bounds of the model
\* ------------------------------------------------------------------------

\* The longest input text handed to split_text.
MaxLen == 32

\* How many iterations beyond len(text) the splitter loop is followed (a loop
\* whose start advances makes at most len(text) iterations).
MaxExtra == 1

\* The longest list of paths handed to delete_files.
MaxDelete == 2

\* ------------------------------------------------------------------------
\* Variables
\* ------------------------------------------------------------------------

VARIABLES
    \* SimpleTextSplitter.split_text
    text,           \* the argument of split_text: a sequence of characters
    chunk_size,     \* self.chunk_size
    chunk_overlap,  \* self.chunk_overlap
    start,          \* the local start
    chunks,         \* the local chunks: a sequence of texts
    spans,          \* history: <<start, end>> of every chunk appended
    spc             \* "call", "loop" or "done"

VARIABLES
    \* The databases
    gridfs,         \* original_files_bucket: filename -> number of files
    datasets,       \* the datasets collection: filePath -> record or NoDoc
    ragChunks,      \* the ragChunks collection: a set of documents
    clock           \* the time get_utc_now returns next

VARIABLES
    \* delete_files
    ragConf,                \* config.MONGO_RAG_URI: "ok", "unset" or "raises"
    file_paths_to_delete,   \* the argument: a sequence of paths
    didx,                   \* the place of the loop in the list (from 1)
    dpc,                    \* the control position of delete_files
    db_rag,                 \* whether db_rag is not None
    gridfs_file,            \* whether fs.find_one found a file
    deleted_count,
    errors,                 \* the messages, in order
    raised,                 \* history: the places of the list whose step raised
    entered,                \* history: the places whose loop body was entered
    atCall                  \* history: what the stores held when called

VARIABLES
    \* run_ingestion_pipeline
    localFiles,         \* the files under DATASET_ROOT_PATH
    target_files_set,   \* the paths of TARGET_FILES_LIST ({}: none given)
    ipc,                \* the control position of the pipeline
    scanned,            \* the files the walk has visited
    files_to_process,   \* the list built by the walk
    fidx,               \* the place of the second loop in files_to_process
    cidx,               \* the index i of the embedding loop (from 0)
    vectors_to_insert,  \* the chunk documents collected for the current file
    status_docs,        \* history: <<file, status_doc>> read by the walk
    embedCalls,         \* history: the <<file, i>> handed to get_embedding
    insertedDocs,       \* history: the documents this run inserted
    issued              \* history: the files whose insert_many was called

VARIABLES
    \* Atlas Vector Search
    searchIndex,        \* the search index named "default", or NoIndex
    pipeline,           \* the aggregation pipeline vector_search last issued
    search_results,     \* what vector_search last returned
    search_error        \* whether vector_search last showed an error

VARIABLES
    \* the users collection and one browser session (Home.py, views/login.py)
    users,              \* email -> the user's record, or NoUser
    authenticated,      \* st.session_state.authenticated
    role,               \* st.session_state.role ("None": None)
    auth_mode,          \* st.session_state.auth_mode
    temp_email,         \* st.session_state.temp_email ("": not set)
    temp_role,          \* st.session_state.temp_role ("None": not set)
    user_email,         \* st.session_state.user_email ("": not set)
    reset_email,        \* st.session_state.reset_email ("": not set)
    otp_expiry,         \* st.session_state.otp_expiry, in seconds from now
    query_t,            \* st.query_params["t"], or NoToken
    shown,              \* the kind of message the last run displayed
    rendered,           \* what the last run rendered
    last,               \* history: the handler of the last run and its results
    passed_2fa          \* history: verify_2fa returned true in this session

VARIABLES
    \* the uploads: upload_file_to_gridfs and the file manager's upload loop
    uploaded_files,     \* the <<target_folder, name>> chosen in the file manager
    uidx,               \* the place of the upload loop in uploaded_files
    upc,                \* the control position of the upload loop
    success_count,      \* success_count of the upload loop
    upload              \* history: the upload the last step made, if any

VARIABLES
    \* get_env (utils/config.py)
    environ,            \* os.getenv(key): the value, or Unset
    secrets_kind,       \* what st.secrets is: "toml", "object" or "no_file"
    secrets,            \* the leaves of the secrets file: <<path, value>>
    secret_path,        \* the secret_path argument (<< >>: None or empty)
    default,            \* the default argument ("None": None)
    env_ret,            \* what get_env returned, or the exception it let out
    epc                 \* "call" before get_env, "done" after

VARIABLES
    \* normalize_path (utils/admin_utils.py)
    path,               \* the argument, a sequence of characters
    normalized,         \* normalize_path(path)
    renormalized,       \* normalize_path(normalize_path(path))
    npc                 \* "call", "again" or "done"

splitVars == <<text, chunk_size, chunk_overlap, start, chunks, spans, spc>>

storeVars == <<gridfs, datasets, ragChunks, clock>>

delVars == <<ragConf, file_paths_to_delete, didx, dpc, db_rag, gridfs_file,
             deleted_count, errors, raised, entered, atCall>>

ingVars == <<localFiles, target_files_set, ipc, scanned, files_to_process,
             fidx, cidx, vectors_to_insert, status_docs, embedCalls, insertedDocs,
             issued>>

searchVars == <<searchIndex, pipeline, search_results, search_error>>

sessionVars == <<authenticated, role, auth_mode, temp_email, temp_role,
                 user_email, reset_email, otp_expiry, query_t, shown, rendered>>

loginVars == <<users, sessionVars, last, passed_2fa>>

VARIABLES
    \* the chatbot page: views/chatbot.py
    current_chat_id,    \* st.session_state.current_chat_id, or NoChatId
    messages,           \* st.session_state.messages
    temp_mode,          \* st.session_state.temp_mode
    chat_sessions,      \* the chat_sessions collection, by _id
    uuid_next           \* history: how many uuid4() values were drawn

uplVars == <<uploaded_files, uidx, upc, success_count, upload>>

envVars == <<environ, secrets_kind, secrets, secret_path, default, env_ret, epc>>

pathVars == <<path, normalized, renormalized, npc>>

chatVars == <<current_chat_id, messages, temp_mode, chat_sessions, uuid_next>>

moreVars == <<uplVars, envVars, pathVars, chatVars>>

vars == <<splitVars, storeVars, delVars, ingVars, searchVars, loginVars, moreVars>>

\* ------------------------------------------------------------------------
\* Helpers
\* ------------------------------------------------------------------------

Min(a, b) == IF a < b THEN a ELSE b

Max(a, b) == IF a > b THEN a ELSE b

SetMax(S) == CHOOSE x \in S : \A y \in S : y <= x

\* ------------------------------------------------------------------------
\* The databases: GridFS, datasets (metadata DB), ragChunks (RAG DB)
\* ------------------------------------------------------------------------

\* The relative paths of the dataset. The first two differ only in '.' / '_'.
Files == { "Quran/s.1.txt", "Quran/s_1.txt", "Tafsirs/J/Vol2.pdf" }

\* The characters of a path.
PathChars(f) ==
    CASE f = "Quran/s.1.txt" ->
            <<"Q", "u", "r", "a", "n", "/", "s", ".", "1", ".", "t", "x", "t">>
      [] f = "Quran/s_1.txt" ->
            <<"Q", "u", "r", "a", "n", "/", "s", "_", "1", ".", "t", "x", "t">>
      [] f = "Tafsirs/J/Vol2.pdf" ->
            <<"T", "a", "f", "s", "i", "r", "s", "/", "J", "/",
              "V", "o", "l", "2", ".", "p", "d", "f">>

\* relative_file_path.split('/')
PathParts(f) ==
    CASE f = "Quran/s.1.txt" -> <<"Quran", "s.1.txt">>
      [] f = "Quran/s_1.txt" -> <<"Quran", "s_1.txt">>
      [] f = "Tafsirs/J/Vol2.pdf" -> <<"Tafsirs", "J", "Vol2.pdf">>

\* The chunks extract_text_and_split returns for a file: for each, whether
\* len(chunk_text.strip()) >= 50.
FileChunks(f) ==
    CASE f = "Quran/s.1.txt" -> <<TRUE, FALSE>>
      [] f = "Quran/s_1.txt" -> <<TRUE>>
      [] f = "Tafsirs/J/Vol2.pdf" -> <<TRUE, TRUE>>

\* indexingDate: None.
NoDate == -1

\* find_one finds no document.
NoDoc == [status |-> "None", indexingDate |-> NoDate]

\* str.replace(old, new) for single characters.
ReplaceChar(cs, old, new) ==
    [i \in 1..Len(cs) |-> IF cs[i] = old THEN new ELSE cs[i]]

\* safe_id = f"{relative_file_path}_{i}".replace('.', '_').replace(' ', '_')
SafeId(f, i) ==
    ReplaceChar(ReplaceChar(PathChars(f) \o <<"_", ToString(i)>>, ".", "_"),
                " ", "_")

\* data_type of the walk, from the directory parts of the path.
DataType(f) ==
    LET dirs == { PathParts(f)[j] : j \in 1..(Len(PathParts(f)) - 1) }
    IN  IF "Quran" \in dirs THEN "Quran"
        ELSE IF "Tafsirs" \in dirs THEN "Tafsir"
        ELSE "General"

\* re.search(r'Vol(\d+)', file_name, re.IGNORECASE) matches.
HasVolume(f) == f = "Tafsirs/J/Vol2.pdf"

\* int(volume_match.group(1))
VolumeOf(f) == IF f = "Tafsirs/J/Vol2.pdf" THEN 2 ELSE 0

\* meta_data of run_ingestion_pipeline.
MetaData(f) ==
    IF DataType(f) = "Tafsir"
    THEN IF HasVolume(f)
         THEN [dataType |-> "Tafsir", tafsirName |-> PathParts(f)[2],
               volume |-> VolumeOf(f)]
         ELSE [dataType |-> "Tafsir", tafsirName |-> PathParts(f)[2]]
    ELSE [dataType |-> DataType(f)]

\* The dimensions get_embedding asks for.
EmbeddingDim == 768

\* chunk_doc of process_and_insert_document for chunk i (from 0) of file f.
ChunkDoc(f, i, now) ==
    [id |-> SafeId(f, i),
     text |-> <<f, i>>,
     embedding |-> EmbeddingDim,
     metadata |-> [k \in {"source", "chunkIndex", "dateCreated"}
                         \cup DOMAIN MetaData(f) |->
                     CASE k = "source" -> f
                       [] k = "chunkIndex" -> ToString(i)
                       [] k = "dateCreated" -> ToString(now)
                       [] OTHER -> ToString(MetaData(f)[k])]]

\* The documents of ragChunks with metadata.source = f.
ChunksOf(f) == { c \in ragChunks : c.metadata["source"] = f }

\* A datasets record.
DatasetRec(st, date) == [status |-> st, indexingDate |-> date]

\* What the stores may hold for one file before an operation starts: nothing;
\* an uploaded file not indexed; an uploaded, indexed file; an indexed file of
\* the local dataset only; chunks inserted whose status update failed; chunks
\* left behind by a deletion without the RAG DB.
Situations ==
    { [fs |-> 0, ds |-> NoDoc, rag |-> FALSE],
      [fs |-> 1, ds |-> DatasetRec("PENDING", NoDate), rag |-> FALSE],
      [fs |-> 1, ds |-> DatasetRec("INDEXED", 0), rag |-> TRUE],
      [fs |-> 0, ds |-> DatasetRec("INDEXED", 0), rag |-> TRUE],
      [fs |-> 0, ds |-> DatasetRec("PENDING", NoDate), rag |-> TRUE],
      [fs |-> 0, ds |-> NoDoc, rag |-> TRUE] }

\* The chunks an earlier, complete run inserted for f.
IndexedChunks(f) ==
    { ChunkDoc(f, i - 1, 0) : i \in { j \in 1..Len(FileChunks(f)) : FileChunks(f)[j] } }

\* The chunks of several files, an _id held once.
UniqueById(docs) ==
    \A c, d \in docs : c.id = d.id => c = d

InitStore ==
    /\ \E sit \in [Files -> Situations] :
        /\ gridfs = [f \in Files |-> sit[f].fs]
        /\ datasets = [f \in Files |-> sit[f].ds]
        /\ ragChunks = UNION { IF sit[f].rag THEN IndexedChunks(f) ELSE {} : f \in Files }
        /\ UniqueById(UNION { IF sit[f].rag THEN IndexedChunks(f) ELSE {} : f \in Files })
    /\ clock = 1

\* The databases, empty.
IdleStore ==
    /\ gridfs = [f \in Files |-> 0]
    /\ datasets = [f \in Files |-> NoDoc]
    /\ ragChunks = {}
    /\ clock = 1

\* The splitter at rest.
IdleSplit ==
    /\ text = << >>
    /\ chunk_size = 500
    /\ chunk_overlap = 50
    /\ start = 0
    /\ chunks = << >>
    /\ spans = << >>
    /\ spc = "done"

\* delete_files not called.
IdleDelete ==
    /\ ragConf = "unset"
    /\ file_paths_to_delete = << >>
    /\ didx = 1
    /\ dpc = "idle"
    /\ db_rag = FALSE
    /\ gridfs_file = FALSE
    /\ deleted_count = 0
    /\ errors = << >>
    /\ raised = {}
    /\ entered = {}
    /\ atCall = [gridfs |-> {}, datasets |-> {}, rag |-> {}]

\* The pipeline not started.
IdleIngest ==
    /\ localFiles = {}
    /\ target_files_set = {}
    /\ ipc = "idle"
    /\ scanned = {}
    /\ files_to_process = << >>
    /\ fidx = 1
    /\ cidx = 0
    /\ vectors_to_insert = << >>
    /\ status_docs = {}
    /\ embedCalls = {}
    /\ insertedDocs = {}
    /\ issued = {}

\* No search index named "default".
NoIndex == [name |-> "None"]

\* The model passed to create_search_index, for an embedding of dim numbers.
IndexModel(dim) ==
    [name |-> "default",
     type |-> "vectorSearch",
     fields |-> { [type |-> "vector", path |-> "embedding",
                   numDimensions |-> ToString(dim), similarity |-> "cosine"],
                  [type |-> "filter", path |-> "metadata.sourceFile"] }]

\* vector_search has not been called.
NoPipeline == << >>

IdleQuery ==
    /\ pipeline = NoPipeline
    /\ search_results = {}
    /\ search_error = FALSE

\* No index, nothing asked.
IdleSearch ==
    /\ searchIndex = NoIndex
    /\ IdleQuery

\* The step made no upload.
NoUpload == [by |-> "none", path |-> "", existed |-> FALSE, ret |-> 0]

\* The file manager's upload loop is not running.
IdleUpload ==
    /\ uploaded_files = << >>
    /\ uidx = 1
    /\ upc = "idle"
    /\ success_count = 0
    /\ upload = NoUpload

\* os.getenv returned None.
Unset == "None"

\* No return value yet.
NoReturn == [value |-> "None", raised |-> "None"]

\* get_env is not being called.
IdleEnv ==
    /\ environ = Unset
    /\ secrets_kind = "no_file"
    /\ secrets = {}
    /\ secret_path = << >>
    /\ default = "None"
    /\ env_ret = NoReturn
    /\ epc = "idle"

\* normalize_path is not being called.
IdlePath ==
    /\ path = << >>
    /\ normalized = << >>
    /\ renormalized = << >>
    /\ npc = "idle"

\* The parts of the program outside the five above are not in use.
\* ---- The chatbot's state ---------------------------------------------------

\* The chats a session may start: uuid4() draws at most MaxChats values.
MaxChats == 2

\* The prompts one chat may hold.
MaxPrompts == 2

ChatIds == 1..MaxChats

\* chatbot.py line 85: current_chat_id = None
NoChatId == 0

\* No chat_sessions document with this _id.
NoChat == [user_email |-> "", messages |-> <<>>]

\* chatbot.py lines 84-87: the page's defaults, and an empty collection.
IdleChat ==
    /\ current_chat_id = NoChatId
    /\ messages = <<>>
    /\ temp_mode = FALSE
    /\ chat_sessions = [c \in ChatIds |-> NoChat]
    /\ uuid_next = 0

IdleMore ==
    /\ IdleUpload
    /\ IdleEnv
    /\ IdlePath
    /\ IdleChat

\* ---- The accounts and the session defaults --------------------------------

\* The addresses tried: an administrator, a user, and one with no account or
\* a pending one.
Emails == { "admin@q", "user@q", "new@q" }

\* Passwords that pass validate_password_strength, and one that does not.
StrongPasswords == { "Str0ng!A", "Str0ng!B" }

WeakPassword == "weak"

\* The 6-digit codes that may be generated.
Codes == { "111111", "222222" }

\* otp: None
NoOtp == "None"

\* find_one returned None.
NoUser == [verified |-> FALSE, password |-> "None", role |-> "None",
           otp |-> NoOtp]

UserRec(v, pw, r, otp) ==
    [verified |-> v, password |-> pw, role |-> r, otp |-> otp]

\* No "t" in st.query_params.
NoToken == "None"

\* No handler has run.
NoCall == [handler |-> "none", email |-> "", arg |-> "", ok |-> FALSE,
           role |-> "None"]

\* The handler h ran and the auth_utils function it called returned ok and the
\* role r; of a login, the address e and the password, code or token arg.
Call(h, e, arg, ok, r) ==
    [handler |-> h, email |-> e, arg |-> arg, ok |-> ok, role |-> r]

\* Home.py lines 6-10 and login.py lines 117-125: a new session.
SessionDefaults ==
    /\ authenticated = FALSE
    /\ role = "None"
    /\ auth_mode = "login"
    /\ temp_email = ""
    /\ temp_role = "None"
    /\ user_email = ""
    /\ reset_email = ""
    /\ otp_expiry = 0

\* No session in use.
IdleLogin ==
    /\ users = [e \in Emails |-> NoUser]
    /\ SessionDefaults
    /\ query_t = NoToken
    /\ shown = "none"
    /\ rendered = "none"
    /\ last = NoCall
    /\ passed_2fa = FALSE

\* ------------------------------------------------------------------------
\* SimpleTextSplitter (rag_ingestion.py)
\* ------------------------------------------------------------------------

\* The (chunk_size, chunk_overlap) pairs tried: a zero size, sizes below 10
\* (no look-back), sizes 20 and 30 (look-back 2 and 3), overlaps below, equal
\* to and above the size.
Configs ==
    { <<0, 0>>, <<0, 5>>, <<1, 0>>, <<1, 1>>, <<3, 0>>, <<3, 1>>, <<3, 7>>,
      <<20, 0>>, <<20, 1>>, <<20, 2>>, <<20, 25>>,
      <<30, 0>>, <<30, 1>>, <<30, 2>>, <<30, 3>>, <<30, 30>> }

\* A text of length L of letters, with a newline at 1-based place nl and the
\* two characters ". " at places pd, pd + 1 (0: none).
MkText(L, nl, pd) ==
    [i \in 1..L |->
        IF i = nl THEN "\n"
        ELSE IF pd # 0 /\ i = pd THEN "."
        ELSE IF pd # 0 /\ i = pd + 1 THEN " "
        ELSE "a"]

\* The break characters of a text lie apart by at most this many places (a
\* look-back window holds at most 3 characters for the sizes of Configs).
Near(nl, pd) == nl = 0 \/ pd = 0 \/ (nl - pd \in -3..3)

TextInputs ==
    { MkText(L, p[1], p[2]) :
        L \in 0..MaxLen,
        p \in { q \in (0..MaxLen) \X (0..MaxLen) : Near(q[1], q[2]) } }

\* text[lo:hi] with the character at hi taken too.
SliceInclusive(t, lo, hi) == SubSeq(t, lo + 1, Min(hi + 1, Len(t)))

\* text[lo:hi] of Python for 0 <= lo, hi: clipped to the text.
Slice(t, lo, hi) == SubSeq(t, lo + 1, Min(hi, Len(t)))

\* A slice bound as str.rfind adjusts it: a negative bound counts from the end.
AdjustIndex(t, i) ==
    IF i < 0 THEN Max(i + Len(t), 0) ELSE Min(i, Len(t))

\* str.rfind(sub, lo, hi): the highest position p in [lo, hi - len(sub)] at
\* which sub occurs, or -1.
RFind(t, sub, lo, hi) ==
    LET a == AdjustIndex(t, lo)
        b == AdjustIndex(t, hi)
        hits == { p \in a..(b - Len(sub)) :
                    \A j \in 1..Len(sub) : t[p + j] = sub[j] }
    IN  IF hits = {} THEN -1 ELSE SetMax(hits)

\* int(self.chunk_size * 0.1)
Lookback(size) == size \div 10

\* The first assignment to end in the loop body.
SplitEnd(t, s, size) == Min(s + size, Len(t))

\* The end of the chunk starting at s, after the search for a break point.
BreakEnd(t, s, size) ==
    LET end == SplitEnd(t, s, size)
        lookback == Lookback(size)
        last_newline == RFind(t, <<"\n">>, end - lookback, end)
        last_period == RFind(t, <<".", " ">>, end - lookback, end)
    IN  IF end < Len(t)
        THEN IF last_newline # -1 THEN last_newline + 1
             ELSE IF last_period # -1 THEN last_period + 2
             ELSE end
        ELSE end

\* The start of the next iteration.
NextStart(s, end, size, overlap) ==
    IF overlap >= size THEN end ELSE s + size - overlap

InitSplit ==
    /\ IdleMore
    /\ text \in TextInputs
    /\ \E c \in Configs : chunk_size = c[1] /\ chunk_overlap = c[2]
    /\ start = 0
    /\ chunks = << >>
    /\ spans = << >>
    /\ spc = "call"
    /\ IdleStore
    /\ IdleDelete
    /\ IdleIngest
    /\ IdleSearch
    /\ IdleLogin

\* split_text up to the loop: an empty text returns [].
SplitCall ==
    /\ spc = "call"
    /\ spc' = IF Len(text) = 0 THEN "done" ELSE "loop"
    /\ start' = 0
    /\ chunks' = << >>
    /\ spans' = << >>
    /\ UNCHANGED <<text, chunk_size, chunk_overlap>>
    /\ UNCHANGED <<storeVars, delVars, ingVars, searchVars, loginVars, moreVars>>

\* One iteration of the while loop.
SplitStep ==
    /\ spc = "loop"
    /\ start < Len(text)
    /\ Len(chunks) < Len(text) + MaxExtra
    /\ LET end == BreakEnd(text, start, chunk_size)
       IN  /\ chunks' = Append(chunks, Slice(text, start, end))
           /\ spans' = Append(spans, <<start, end>>)
           /\ start' = NextStart(start, end, chunk_size, chunk_overlap)
    /\ UNCHANGED <<text, chunk_size, chunk_overlap, spc>>
    /\ UNCHANGED <<storeVars, delVars, ingVars, searchVars, loginVars, moreVars>>

\* The loop condition fails: return chunks.
SplitReturn ==
    /\ spc = "loop"
    /\ start >= Len(text)
    /\ spc' = "done"
    /\ UNCHANGED <<text, chunk_size, chunk_overlap, start, chunks, spans>>
    /\ UNCHANGED <<storeVars, delVars, ingVars, searchVars, loginVars, moreVars>>

NextSplit == SplitCall \/ SplitStep \/ SplitReturn

SpecSplit == InitSplit /\ [][NextSplit]_vars

\* ---- Claims about split_text ------------------------------------------

\* The positions of text that lie in some chunk.
Covered == { p \in 0..(Len(text) - 1) :
               \E i \in 1..Len(spans) : spans[i][1] <= p /\ p < spans[i][2] }

\* C1 (as claimed): for a non-empty text and 0 <= chunk_overlap < chunk_size,
\* the returned chunks lose no text: every chunk after the first starts at or
\* before the position where the previous chunk ended, and every position of
\* the text lies in at least one chunk.
C1_NoTextLost ==
    (spc = "done" /\ Len(text) > 0 /\ 0 <= chunk_overlap
        /\ chunk_overlap < chunk_size)
    => /\ \A i \in 2..Len(spans) : spans[i][1] <= spans[i - 1][2]
       /\ Covered = 0..(Len(text) - 1)

\* C8 (as claimed): for every text and all non-negative chunk_size and
\* chunk_overlap, the loop of split_text terminates: each chunk starts
\* strictly after the previous one, so at most len(text) chunks are made.
C8_StartsStrictlyIncrease ==
    /\ \A i \in 2..Len(spans) : spans[i][1] > spans[i - 1][1]
    /\ Len(chunks) <= Len(text)

\* C9: for chunk_size >= 1 and chunk_overlap >= 0, split_text returns [] for
\* an empty text, and otherwise chunks that are each a non-empty contiguous
\* piece of the text of at most chunk_size characters, the first starting at
\* position 0 and the last ending at the end of the text.
C9_ChunksAreBoundedSubstrings ==
    (spc = "done" /\ chunk_size >= 1 /\ chunk_overlap >= 0)
    => /\ Len(text) = 0 => chunks = << >>
       /\ Len(text) > 0 =>
            /\ Len(chunks) >= 1
            /\ Len(spans) = Len(chunks)
            /\ \A i \in 1..Len(chunks) :
                    /\ 0 <= spans[i][1]
                    /\ spans[i][1] < spans[i][2]
                    /\ spans[i][2] <= Len(text)
                    /\ chunks[i] = SubSeq(text, spans[i][1] + 1, spans[i][2])
                    /\ Len(chunks[i]) >= 1
                    /\ Len(chunks[i]) <= chunk_size
            /\ spans[1][1] = 0
            /\ spans[Len(spans)][2] = Len(text)

\* C9 witness: a finished split of several chunks, one of them cut short at a
\* break point, under an overlap below the size.
C9_Witness ==
    /\ spc = "done"
    /\ chunk_size >= 1
    /\ chunk_overlap < chunk_size
    /\ Len(chunks) >= 2
    /\ \E i \in 1..(Len(spans) - 1) : spans[i][2] - spans[i][1] < chunk_size

\* ------------------------------------------------------------------------
\* run_ingestion_pipeline and process_and_insert_document (rag_ingestion.py)
\* ------------------------------------------------------------------------

\* The dimensions of the index of fix_search_index.py.
FixedIndexDim == 3072

\* The values of TARGET_FILES_LIST tried ({}: not set).
TargetSets == { {}, {"Quran/s.1.txt"}, {"Quran/s_1.txt", "Tafsirs/J/Vol2.pdf"} }

InitIngest ==
    /\ IdleMore
    /\ InitStore
    /\ IdleSplit
    /\ IdleDelete
    /\ IdleLogin
    /\ searchIndex \in {NoIndex, IndexModel(FixedIndexDim)}
    /\ IdleQuery
    /\ localFiles \in SUBSET Files
    /\ target_files_set \in TargetSets
    /\ ipc = "start"
    /\ scanned = {}
    /\ files_to_process = << >>
    /\ fidx = 1
    /\ cidx = 0
    /\ vectors_to_insert = << >>
    /\ status_docs = {}
    /\ embedCalls = {}
    /\ insertedDocs = {}
    /\ issued = {}

\* create_vector_index: nothing when an index named "default" exists; else the
\* 768-dimension model is created, unless the call raises (a warning).
CreateVectorIndex(idx) ==
    IF idx.name = "default"
    THEN {idx}
    ELSE {IndexModel(EmbeddingDim), idx}

\* The module's start-up: the connections, and create_vector_index.
IngestStart ==
    /\ UNCHANGED issued
    /\ ipc = "start"
    /\ searchIndex' \in CreateVectorIndex(searchIndex)
    /\ ipc' = IF target_files_set # {} THEN "sync" ELSE "scan"
    /\ UNCHANGED <<localFiles, target_files_set, scanned, files_to_process,
                   fidx, cidx, vectors_to_insert, status_docs, embedCalls,
                   insertedDocs>>
    /\ UNCHANGED <<pipeline, search_results, search_error>>
    /\ UNCHANGED <<splitVars, storeVars, delVars, loginVars, moreVars>>

\* Lines 321-342: the targeted files that are not local are downloaded from
\* GridFS when it holds them; a download may fail (the except clause).
IngestSync ==
    /\ UNCHANGED issued
    /\ ipc = "sync"
    /\ \E got \in SUBSET { f \in target_files_set :
                             f \notin localFiles /\ gridfs[f] > 0 } :
            localFiles' = localFiles \cup got
    /\ ipc' = "scan"
    /\ UNCHANGED <<target_files_set, scanned, files_to_process, fidx, cidx,
                   vectors_to_insert, status_docs, embedCalls, insertedDocs>>
    /\ UNCHANGED <<splitVars, storeVars, delVars, searchVars, loginVars, moreVars>>

\* A walk that skips no file.
ScanSkipsNever(status_doc) == FALSE

\* status_doc and status_doc.get("status") == "INDEXED"
ScanSkips(status_doc) == status_doc # NoDoc /\ status_doc.status = "INDEXED"

\* Lines 355-383: the walk visits one more file: a file outside the target set
\* or found INDEXED is passed over, any other is appended to files_to_process.
IngestScan(f) ==
    /\ UNCHANGED issued
    /\ ipc = "scan"
    /\ f \in localFiles \ scanned
    /\ scanned' = scanned \cup {f}
    /\ IF target_files_set # {} /\ f \notin target_files_set
       THEN UNCHANGED <<files_to_process, status_docs>>
       ELSE /\ status_docs' = status_docs \cup {<<f, datasets[f]>>}
            /\ IF ScanSkips(datasets[f])
               THEN UNCHANGED files_to_process
               ELSE files_to_process' = Append(files_to_process, f)
    /\ UNCHANGED <<localFiles, target_files_set, ipc, fidx, cidx,
                   vectors_to_insert, embedCalls, insertedDocs>>
    /\ UNCHANGED <<splitVars, storeVars, delVars, searchVars, loginVars, moreVars>>

\* The walk is over: the second loop starts.
IngestScanDone ==
    /\ UNCHANGED issued
    /\ ipc = "scan"
    /\ scanned = localFiles
    /\ fidx' = 1
    /\ ipc' = IF Len(files_to_process) > 0 THEN "upsert" ELSE "done"
    /\ UNCHANGED <<localFiles, target_files_set, scanned, files_to_process,
                   cidx, vectors_to_insert, status_docs, embedCalls, insertedDocs>>
    /\ UNCHANGED <<splitVars, storeVars, delVars, searchVars, loginVars, moreVars>>

\* The file of the current iteration of the second loop.
rel_path == files_to_process[fidx]

\* The position after the current file: the next file, or the end.
AfterFile == IF fidx < Len(files_to_process) THEN "upsert" ELSE "done"

NextFidx == IF fidx < Len(files_to_process) THEN fidx + 1 ELSE fidx

\* An upsert that writes nothing.
UpsertNothing(ds, f) == ds

\* Lines 394-399: update_one with upsert: status PENDING; indexingDate None
\* only when the record is inserted.
UpsertPending(ds, f) ==
    [ds EXCEPT ![f] = IF @ = NoDoc
                      THEN DatasetRec("PENDING", NoDate)
                      ELSE [@ EXCEPT !.status = "PENDING"]]

IngestUpsert ==
    /\ UNCHANGED issued
    /\ ipc = "upsert"
    /\ datasets' = UpsertPending(datasets, rel_path)
    /\ ipc' = "extract"
    /\ UNCHANGED <<gridfs, ragChunks, clock>>
    /\ UNCHANGED <<localFiles, target_files_set, scanned, files_to_process,
                   fidx, cidx, vectors_to_insert, status_docs, embedCalls,
                   insertedDocs>>
    /\ UNCHANGED <<splitVars, delVars, searchVars, loginVars, moreVars>>

\* Lines 241-249: extract_text_and_split; no chunk (no text, or the file could
\* not be loaded) skips the file.
IngestExtract ==
    /\ UNCHANGED issued
    /\ ipc = "extract"
    /\ \E loaded \in BOOLEAN :
        IF loaded /\ Len(FileChunks(rel_path)) > 0
        THEN /\ ipc' = "embed"
             /\ cidx' = 0
             /\ vectors_to_insert' = << >>
             /\ UNCHANGED fidx
        ELSE /\ ipc' = AfterFile
             /\ fidx' = NextFidx
             /\ UNCHANGED <<cidx, vectors_to_insert>>
    /\ UNCHANGED <<localFiles, target_files_set, scanned, files_to_process,
                   status_docs, embedCalls, insertedDocs>>
    /\ UNCHANGED <<splitVars, storeVars, delVars, searchVars, loginVars, moreVars>>

\* Lines 255-286: one iteration of the embedding loop: a short chunk is passed
\* over; get_embedding is called, and once more when it returns None; a chunk
\* that got a vector is collected.
IngestEmbed ==
    /\ UNCHANGED issued
    /\ ipc = "embed"
    /\ cidx < Len(FileChunks(rel_path))
    /\ IF ~FileChunks(rel_path)[cidx + 1]
       THEN UNCHANGED <<vectors_to_insert, embedCalls, clock>>
       ELSE /\ embedCalls' = embedCalls \cup {<<rel_path, cidx>>}
            /\ \E embedded \in BOOLEAN :
                IF embedded
                THEN /\ vectors_to_insert' =
                        Append(vectors_to_insert, ChunkDoc(rel_path, cidx, clock))
                     /\ clock' = clock + 1
                ELSE UNCHANGED <<vectors_to_insert, clock>>
    /\ cidx' = cidx + 1
    /\ UNCHANGED <<gridfs, datasets, ragChunks>>
    /\ UNCHANGED <<localFiles, target_files_set, ipc, scanned, files_to_process,
                   fidx, status_docs, insertedDocs>>
    /\ UNCHANGED <<splitVars, delVars, searchVars, loginVars, moreVars>>

\* The embedding loop is over: line 288.
IngestEmbedDone ==
    /\ UNCHANGED issued
    /\ ipc = "embed"
    /\ cidx >= Len(FileChunks(rel_path))
    /\ IF Len(vectors_to_insert) > 0
       THEN ipc' = "insert" /\ UNCHANGED fidx
       ELSE ipc' = AfterFile /\ fidx' = NextFidx
    /\ UNCHANGED <<localFiles, target_files_set, scanned, files_to_process,
                   cidx, vectors_to_insert, status_docs, embedCalls, insertedDocs>>
    /\ UNCHANGED <<splitVars, storeVars, delVars, searchVars, loginVars, moreVars>>

\* The documents of a batch whose _id the collection does not hold yet.
Insertable(batch, coll) ==
    { batch[k] : k \in { j \in 1..Len(batch) :
                           \A c \in coll : c.id # batch[j].id } }

\* Lines 290-296: insert_many(ordered=False): every document with a new _id is
\* inserted; a duplicate _id raises BulkWriteError, which is caught.
IngestInsert ==
    /\ ipc = "insert"
    /\ issued' = issued \cup {rel_path}
    /\ ragChunks' = ragChunks \cup Insertable(vectors_to_insert, ragChunks)
    /\ insertedDocs' = insertedDocs \cup Insertable(vectors_to_insert, ragChunks)
    /\ ipc' = "update"
    /\ UNCHANGED <<gridfs, datasets, clock>>
    /\ UNCHANGED <<localFiles, target_files_set, scanned, files_to_process,
                   fidx, cidx, vectors_to_insert, status_docs, embedCalls>>
    /\ UNCHANGED <<splitVars, delVars, searchVars, loginVars, moreVars>>

\* Lines 305-306: insert_many raises another exception (the connection): any
\* part of the batch may have been written; the status is not updated.
IngestInsertFails ==
    /\ ipc = "insert"
    /\ issued' = issued \cup {rel_path}
    /\ \E done \in SUBSET Insertable(vectors_to_insert, ragChunks) :
        /\ ragChunks' = ragChunks \cup done
        /\ insertedDocs' = insertedDocs \cup done
    /\ ipc' = AfterFile
    /\ fidx' = NextFidx
    /\ UNCHANGED <<gridfs, datasets, clock>>
    /\ UNCHANGED <<localFiles, target_files_set, scanned, files_to_process,
                   cidx, vectors_to_insert, status_docs, embedCalls>>
    /\ UNCHANGED <<splitVars, delVars, searchVars, loginVars, moreVars>>

\* update_one({"filePath": f}, {"$set": {"status": "INDEXED", ...}}): no
\* upsert, so a missing record stays missing.
SetIndexed(ds, f, now) ==
    [ds EXCEPT ![f] = IF @ = NoDoc THEN @ ELSE DatasetRec("INDEXED", now)]

\* Lines 299-306: the status update, or its failure (the except clause).
IngestUpdate ==
    /\ UNCHANGED issued
    /\ ipc = "update"
    /\ \/ /\ datasets' = SetIndexed(datasets, rel_path, clock)
          /\ clock' = clock + 1
       \/ UNCHANGED <<datasets, clock>>
    /\ ipc' = AfterFile
    /\ fidx' = NextFidx
    /\ UNCHANGED <<gridfs, ragChunks>>
    /\ UNCHANGED <<localFiles, target_files_set, scanned, files_to_process,
                   cidx, vectors_to_insert, status_docs, embedCalls, insertedDocs>>
    /\ UNCHANGED <<splitVars, delVars, searchVars, loginVars, moreVars>>

NextIngest ==
    \/ IngestStart
    \/ IngestSync
    \/ \E f \in Files : IngestScan(f)
    \/ IngestScanDone
    \/ IngestUpsert
    \/ IngestExtract
    \/ IngestEmbed
    \/ IngestEmbedDone
    \/ IngestInsert
    \/ IngestInsertFails
    \/ IngestUpdate

SpecIngest == InitIngest /\ [][NextIngest]_vars

\* ---- Claims about the ingestion pipeline --------------------------------

\* C2: a file whose datasets record has status INDEXED when the walk scans it
\* is skipped by the run: no chunk of it is handed to get_embedding, the run
\* inserts no ragChunks document with it as metadata.source, and its datasets
\* record (status, indexingDate) stays what the walk found.
C2_IndexedFileSkipped ==
    \A sk \in status_docs :
        sk[2].status = "INDEXED" =>
        /\ \A call \in embedCalls : call[1] # sk[1]
        /\ \A doc \in insertedDocs : doc.metadata["source"] # sk[1]
        /\ datasets[sk[1]] = sk[2]

\* C2 witness: the run is over; it passed over a file found INDEXED and
\* indexed another file.
C2_Witness ==
    /\ ipc = "done"
    /\ \E sk \in status_docs : \E f \in Files :
        /\ sk[2].status = "INDEXED"
        /\ f # sk[1]
        /\ datasets[f].status = "INDEXED"
        /\ datasets[f].indexingDate >= 1
        /\ \E call \in embedCalls : call[1] = f

\* C16: whenever a chunk of a file is handed to get_embedding, the file's
\* datasets record is PENDING; a record becomes INDEXED only for the file
\* being processed, after insert_many was called for it, and with an
\* indexingDate; a file the run has finished without calling insert_many (no
\* chunk, only short chunks, or every embedding failed) is PENDING.
C16_PendingThenIndexed ==
    [][ /\ embedCalls' # embedCalls => datasets[rel_path].status = "PENDING"
        /\ \A f \in Files :
              (datasets'[f] # datasets[f] /\ datasets'[f].status = "INDEXED") =>
                  /\ f = rel_path
                  /\ f \in issued
                  /\ datasets'[f].indexingDate # NoDate
        /\ \A k \in 1..Len(files_to_process') :
              (/\ ipc' \notin {"start", "sync", "scan"}
               /\ k < fidx' \/ ipc' = "done"
               /\ files_to_process'[k] \notin issued') =>
                  datasets'[files_to_process'[k]].status = "PENDING"
      ]_vars

\* C16 witness: the run is over; one file was indexed after its insert and
\* another, none of whose chunks got a vector, is PENDING.
C16_Witness ==
    /\ ipc = "done"
    /\ \E f \in issued : datasets[f].status = "INDEXED" /\ datasets[f].indexingDate >= 1
    /\ \E k \in 1..Len(files_to_process) :
          /\ files_to_process[k] \notin issued
          /\ \E call \in embedCalls : call[1] = files_to_process[k]
          /\ datasets[files_to_process[k]].status = "PENDING"

\* The chunks of f with len(chunk_text.strip()) >= 50, by their index i.
LongChunks(f) == { i \in 0..(Len(FileChunks(f)) - 1) : FileChunks(f)[i + 1] }

\* C17: a file this run has marked INDEXED has every chunk of trimmed length
\* >= 50 in ragChunks with the file as metadata.source.
C17_IndexedMeansAllChunks ==
    \A f \in Files :
        (datasets[f].status = "INDEXED" /\ f \in issued) =>
            \A i \in LongChunks(f) :
                \E c \in ragChunks : /\ c.metadata["source"] = f
                                     /\ c.metadata["chunkIndex"] = ToString(i)

\* ------------------------------------------------------------------------
\* delete_files (utils/admin_utils.py)
\* ------------------------------------------------------------------------

\* The lists of paths that may be passed.
PathLists == UNION { [1..n -> Files] : n \in 0..MaxDelete }

InitDelete ==
    /\ IdleMore
    /\ InitStore
    /\ IdleSplit
    /\ IdleIngest
    /\ IdleSearch
    /\ IdleLogin
    /\ ragConf \in {"ok", "unset", "raises"}
    /\ file_paths_to_delete \in PathLists
    /\ didx = 1
    /\ dpc = "connect"
    /\ db_rag = FALSE
    /\ gridfs_file = FALSE
    /\ deleted_count = 0
    /\ errors = << >>
    /\ raised = {}
    /\ entered = {}
    /\ atCall = [gridfs |-> {}, datasets |-> {}, rag |-> {}]

\* The path of the current iteration.
file_path == file_paths_to_delete[didx]

\* The position after the iteration at didx: the next iteration, or the end of
\* the loop.
AfterIteration == IF didx < Len(file_paths_to_delete) THEN "find" ELSE "close"

\* Lines 32-45: the counters, and the connection to the RAG DB; a failure to
\* connect is recorded and leaves db_rag None.
DelConnect ==
    /\ dpc = "connect"
    /\ deleted_count' = 0
    /\ db_rag' = (ragConf = "ok")
    /\ errors' = IF ragConf = "raises"
                 THEN <<[msg |-> "Could not connect to RAG DB for deletion",
                         path |-> ""]>>
                 ELSE << >>
    /\ dpc' = IF Len(file_paths_to_delete) > 0 THEN "find" ELSE "close"
    /\ didx' = 1
    /\ atCall' = [gridfs |-> { f \in Files : gridfs[f] > 0 },
                  datasets |-> { f \in Files : datasets[f] # NoDoc },
                  rag |-> { f \in Files : ChunksOf(f) # {} }]
    /\ UNCHANGED <<ragConf, file_paths_to_delete, gridfs_file, raised, entered>>
    /\ UNCHANGED <<splitVars, storeVars, ingVars, searchVars, loginVars, moreVars>>

\* gridfs_file = fs.find_one({"filename": file_path})
DelFind ==
    /\ dpc = "find"
    /\ entered' = entered \cup {didx}
    /\ gridfs_file' = (gridfs[file_path] > 0)
    /\ dpc' = IF gridfs[file_path] > 0 THEN "fsdelete" ELSE "datasets"
    /\ UNCHANGED <<ragConf, file_paths_to_delete, didx, db_rag, deleted_count,
                   errors, raised, atCall>>
    /\ UNCHANGED <<splitVars, storeVars, ingVars, searchVars, loginVars, moreVars>>

\* fs.delete(gridfs_file._id): one file of that name is removed.
DelGridFS ==
    /\ dpc = "fsdelete"
    /\ gridfs' = [gridfs EXCEPT ![file_path] = Max(@ - 1, 0)]
    /\ dpc' = "datasets"
    /\ UNCHANGED <<datasets, ragChunks, clock>>
    /\ UNCHANGED <<ragConf, file_paths_to_delete, didx, db_rag, gridfs_file,
                   deleted_count, errors, raised, entered, atCall>>
    /\ UNCHANGED <<splitVars, ingVars, searchVars, loginVars, moreVars>>

\* A datasets collection in which delete_one leaves the record.
DatasetsKeepOne(ds, f) == ds

\* db["datasets"].delete_one({"filePath": file_path})
DatasetsDeleteOne(ds, f) == [ds EXCEPT ![f] = NoDoc]

DelDatasets ==
    /\ dpc = "datasets"
    /\ datasets' = DatasetsDeleteOne(datasets, file_path)
    /\ dpc' = "rag"
    /\ UNCHANGED <<gridfs, ragChunks, clock>>
    /\ UNCHANGED <<ragConf, file_paths_to_delete, didx, db_rag, gridfs_file,
                   deleted_count, errors, raised, entered, atCall>>
    /\ UNCHANGED <<splitVars, ingVars, searchVars, loginVars, moreVars>>

\* Lines 59-64: delete_many on ragChunks when db_rag is not None, then the
\* path is counted.
DelRag ==
    /\ dpc = "rag"
    /\ ragChunks' = IF db_rag THEN ragChunks \ ChunksOf(file_path) ELSE ragChunks
    /\ deleted_count' = deleted_count + 1
    /\ dpc' = AfterIteration
    /\ didx' = IF didx < Len(file_paths_to_delete) THEN didx + 1 ELSE didx
    /\ UNCHANGED <<gridfs, datasets, clock>>
    /\ UNCHANGED <<ragConf, file_paths_to_delete, db_rag, gridfs_file, errors,
                   raised, entered, atCall>>
    /\ UNCHANGED <<splitVars, ingVars, searchVars, loginVars, moreVars>>

\* The except clause with the path left out of no count: it is counted too.
HandleRaiseCounting(cnt) == cnt + 1

\* The except clause: deleted_count is left as it is.
HandleRaise(cnt) == cnt

\* A step of the iteration raises (find_one, fs.delete, delete_one, or
\* delete_many with a RAG connection): the except clause records the message
\* and the loop goes on with the next path.
DelRaise ==
    /\ dpc \in {"find", "fsdelete", "datasets", "rag"}
    /\ dpc = "rag" => db_rag
    /\ entered' = entered \cup {didx}
    /\ raised' = raised \cup {didx}
    /\ errors' = Append(errors, [msg |-> "Error deleting", path |-> file_path])
    /\ deleted_count' = HandleRaise(deleted_count)
    /\ dpc' = AfterIteration
    /\ didx' = IF didx < Len(file_paths_to_delete) THEN didx + 1 ELSE didx
    /\ UNCHANGED <<ragConf, file_paths_to_delete, db_rag, gridfs_file, atCall>>
    /\ UNCHANGED <<splitVars, storeVars, ingVars, searchVars, loginVars, moreVars>>

\* Lines 68-71: close the RAG client and return deleted_count, errors.
DelReturn ==
    /\ dpc = "close"
    /\ dpc' = "done"
    /\ UNCHANGED <<ragConf, file_paths_to_delete, didx, db_rag, gridfs_file,
                   deleted_count, errors, raised, entered, atCall>>
    /\ UNCHANGED <<splitVars, storeVars, ingVars, searchVars, loginVars, moreVars>>

NextDelete ==
    \/ DelConnect
    \/ DelFind
    \/ DelGridFS
    \/ DelDatasets
    \/ DelRag
    \/ DelRaise
    \/ DelReturn

SpecDelete == InitDelete /\ [][NextDelete]_vars

\* ---- Claims about delete_files -----------------------------------------

\* The places of the list whose iteration ran without raising.
CleanPlaces == (1..Len(file_paths_to_delete)) \ raised

DeleteErrors(f) ==
    Len(SelectSeq(errors, LAMBDA e : e.msg = "Error deleting" /\ e.path = f))

\* C4: a step that raises for a path does not end the call: when delete_files
\* returns, every place of the list was processed, a path whose step raised is
\* not counted, exactly one "Error deleting <path>" message stands for each
\* raise, and the paths after it were processed.
C4_RaiseIsContained ==
    /\ raised \subseteq entered
    /\ dpc = "done" =>
        /\ entered = 1..Len(file_paths_to_delete)
        /\ deleted_count = Len(file_paths_to_delete) - Cardinality(raised)
        /\ \A f \in Files :
            DeleteErrors(f) =
                Cardinality({ i \in raised : file_paths_to_delete[i] = f })

\* C4 witness: the call has returned, a step raised for one path, and a later
\* path of the list was deleted and counted.
C4_Witness ==
    /\ dpc = "done"
    /\ \E i \in raised : \E j \in CleanPlaces : j > i
    /\ deleted_count >= 1

\* ------------------------------------------------------------------------
\* vector_search (views/chatbot.py) and the search index scripts
\* ------------------------------------------------------------------------

\* output_dimensionality of the query embedding.
QueryDim == 3072

\* numCandidates of the $vectorSearch stage.
NumCandidates == 100

\* The questions asked, and the values of TOP_K tried.
Queries == { "q1", "q2" }

TopKs == { 1, 5 }

\* Lines 158-176: the pipeline built for a query vector and k.
Pipeline(query, k) ==
    << [stage |-> "$vectorSearch",
        args |-> [index |-> "default",
                  path |-> "embedding",
                  queryVector |-> <<query, QueryDim>>,
                  numCandidates |-> NumCandidates,
                  limit |-> k]],
       [stage |-> "$project",
        args |-> [id |-> 0, text |-> 1, metadata |-> 1,
                  score |-> "vectorSearchScore"]] >>

\* The $project stage: text and metadata of a chunk.
Project(c) == [text |-> c.text, metadata |-> c.metadata]

\* The documents the index holds: those whose embedding has its dimensions.
Indexed(idx) ==
    { c \in ragChunks : ToString(c.embedding) \in
                          { f.numDimensions : f \in { g \in idx.fields :
                                                        g.type = "vector" } } }

\* The possible answers of Atlas to the stage: nothing without an index; an
\* OperationFailure for a query vector of other dimensions than the index's;
\* else at most limit of the indexed documents.
Aggregate(idx, stage) ==
    IF idx = NoIndex
    THEN { [failed |-> FALSE, docs |-> {}] }
    ELSE IF \A f \in idx.fields :
              f.type = "vector" => f.numDimensions # ToString(stage.queryVector[2])
    THEN { [failed |-> TRUE, docs |-> {}] }
    ELSE { [failed |-> FALSE, docs |-> { Project(c) : c \in d }] :
             d \in { e \in SUBSET Indexed(idx) :
                       Cardinality(e) = Min(stage.limit, Cardinality(Indexed(idx))) } }

InitSearch ==
    /\ IdleMore
    /\ InitStore
    /\ IdleSplit
    /\ IdleDelete
    /\ IdleIngest
    /\ IdleLogin
    /\ searchIndex = NoIndex
    /\ IdleQuery

NotSearch ==
    UNCHANGED <<splitVars, storeVars, delVars, ingVars, loginVars, moreVars>>

\* rag_ingestion.py is started: create_vector_index.
CreateIndex ==
    /\ searchIndex' \in CreateVectorIndex(searchIndex)
    /\ UNCHANGED <<pipeline, search_results, search_error>>
    /\ NotSearch

\* fix_search_index.py: an existing index is dropped, and the 3072-dimension
\* one is created; either call may raise.
FixSearchIndex ==
    /\ searchIndex' \in {searchIndex, NoIndex, IndexModel(FixedIndexDim)}
    /\ UNCHANGED <<pipeline, search_results, search_error>>
    /\ NotSearch

\* Lines 135-184: vector_search(query, k).
VectorSearch(query, k) ==
    /\ \/ \* the embedding call raises
          /\ search_error' = TRUE
          /\ search_results' = {}
          /\ UNCHANGED pipeline
       \/ /\ pipeline' = Pipeline(query, k)
          /\ \E res \in Aggregate(searchIndex, Pipeline(query, k)[1].args) :
                /\ search_results' = res.docs
                /\ search_error' = res.failed
    /\ UNCHANGED searchIndex
    /\ NotSearch

NextSearch ==
    \/ CreateIndex
    \/ FixSearchIndex
    \/ \E q \in Queries, k \in TopKs : VectorSearch(q, k)

SpecSearch == InitSearch /\ [][NextSearch]_vars

\* ---- Claims about the retrieval query -------------------------------------

\* The filter paths the index declares.
FilterPaths(idx) ==
    IF idx = NoIndex THEN {}
    ELSE { f.path : f \in { g \in idx.fields : g.type = "filter" } }

\* The metadata paths a chunk carries.
MetadataPaths(c) == { "metadata." \o k : k \in DOMAIN c.metadata }

\* C10: every $vectorSearch stage vector_search issues has a filter, on a
\* field that the index declares as a filter path and that every ingested
\* chunk carries.
C10_FilteredSearch ==
    pipeline # NoPipeline =>
        /\ "filter" \in DOMAIN pipeline[1].args
        /\ \E p \in FilterPaths(searchIndex) : \A c \in ragChunks :
                p \in MetadataPaths(c)

\* C20: the dimensionality of the query vector that vector_search sends
\* equals the dimensionality of every chunk embedding the ingestion pipeline
\* stored and the numDimensions of the "default" search index it queries,
\* whichever of create_vector_index and fix_search_index.py created the index.
C20_SameDimensions ==
    (pipeline # NoPipeline /\ searchIndex # NoIndex) =>
        LET dim == pipeline[1].args.queryVector[2]
        IN  /\ \A c \in ragChunks : c.embedding = dim
            /\ \A f \in searchIndex.fields :
                  f.type = "vector" => f.numDimensions = ToString(dim)

\* ------------------------------------------------------------------------
\* Uploads: upload_file_to_gridfs (gridfs_ingestion.py) and the upload loop
\* of the file manager (views/file_manager.py)
\* ------------------------------------------------------------------------

\* The longest list of files chosen in the file manager.
MaxUpload == 2

\* The <<target_folder, file.name>> that may be chosen; the folder is typed
\* without leading or trailing separators.
UploadInputs ==
    { <<"Quran", "s.1.txt">>, <<"Quran", "s_1.txt">>, <<"Tafsirs/J", "Vol2.pdf">> }

UploadLists == UNION { [1..n -> UploadInputs] : n \in 1..MaxUpload }

\* Lines 64-67 of file_manager.py: full_rel_path.
FullRelPath(target_folder, name) ==
    IF target_folder # "" THEN target_folder \o "/" \o name ELSE name

\* An existence check that never finds the file.
ExistsNever(fs, relative_file_path) == FALSE

\* fs.exists({"filename": relative_file_path})
Exists(fs, relative_file_path) == fs[relative_file_path] > 0

\* fs.put: one more file with this filename.
Put(fs, relative_file_path) == [fs EXCEPT ![relative_file_path] = @ + 1]

\* update_one({"filePath": f}, {"$set": dataset_meta}, upsert=True)
SyncDataset(ds, relative_file_path) ==
    [ds EXCEPT ![relative_file_path] = DatasetRec("PENDING", NoDate)]

\* One upload of path f by the caller `by`: skipped when the filename exists;
\* else fs.put and the datasets upsert, either of which may raise. ret is 1
\* when both were done.
UploadOne(by, f) ==
    IF Exists(gridfs, f)
    THEN /\ upload' = [by |-> by, path |-> f, existed |-> TRUE, ret |-> 0]
         /\ UNCHANGED <<gridfs, datasets>>
    ELSE \/ /\ gridfs' = Put(gridfs, f)
            /\ datasets' = SyncDataset(datasets, f)
            /\ upload' = [by |-> by, path |-> f, existed |-> FALSE, ret |-> 1]
         \/ /\ gridfs' = Put(gridfs, f)
            /\ UNCHANGED datasets
            /\ upload' = [by |-> by, path |-> f, existed |-> FALSE, ret |-> 0]
         \/ /\ UNCHANGED <<gridfs, datasets>>
            /\ upload' = [by |-> by, path |-> f, existed |-> FALSE, ret |-> 0]

InitUpload ==
    /\ IdleChat
    /\ IdleEnv
    /\ IdlePath
    /\ InitStore
    /\ IdleSplit
    /\ IdleDelete
    /\ IdleIngest
    /\ IdleSearch
    /\ IdleLogin
    /\ IdleUpload

NotUpload ==
    UNCHANGED <<splitVars, delVars, ingVars, searchVars, loginVars, envVars,
                pathVars, chatVars>>

\* gridfs_ingestion.py lines 38-89: upload_file_to_gridfs, called for a file
\* of the local dataset.
UploadFileToGridfs(f) ==
    /\ UploadOne("script", f)
    /\ UNCHANGED <<ragChunks, clock>>
    /\ UNCHANGED <<uploaded_files, uidx, upc, success_count>>
    /\ NotUpload

\* file_manager.py line 58: Start GridFS Upload with files chosen.
ManagerStart(files) ==
    /\ upc = "idle"
    /\ uploaded_files' = files
    /\ uidx' = 1
    /\ success_count' = 0
    /\ upc' = "loop"
    /\ upload' = NoUpload
    /\ UNCHANGED storeVars
    /\ NotUpload

\* file_manager.py lines 64-106: one iteration of the upload loop.
ManagerUpload ==
    /\ upc = "loop"
    /\ uidx <= Len(uploaded_files)
    /\ UploadOne("manager", FullRelPath(uploaded_files[uidx][1],
                                        uploaded_files[uidx][2]))
    /\ success_count' = success_count + upload'.ret
    /\ uidx' = uidx + 1
    /\ UNCHANGED <<ragChunks, clock>>
    /\ UNCHANGED <<uploaded_files, upc>>
    /\ NotUpload

\* file_manager.py lines 108-112: the loop is over.
ManagerDone ==
    /\ upc = "loop"
    /\ uidx > Len(uploaded_files)
    /\ upc' = "idle"
    /\ upload' = NoUpload
    /\ UNCHANGED <<uploaded_files, uidx, success_count>>
    /\ UNCHANGED storeVars
    /\ NotUpload

NextUpload ==
    \/ \E f \in Files : UploadFileToGridfs(f)
    \/ \E files \in UploadLists : ManagerStart(files)
    \/ ManagerUpload
    \/ ManagerDone

SpecUpload == InitUpload /\ [][NextUpload]_vars

\* ---- Claims about the uploads ---------------------------------------------

\* C11: after every step of any sequence of uploads GridFS holds at most one
\* file per path, and an upload of a path GridFS already holds returns 0 (is
\* not counted) and leaves GridFS and the datasets collection as they were.
C11_OneFilePerPath ==
    [][ /\ \A f \in Files : gridfs'[f] <= 1
        /\ (upload'.path \in Files /\ gridfs[upload'.path] > 0) =>
              /\ upload'.existed
              /\ upload'.ret = 0
              /\ gridfs' = gridfs
              /\ datasets' = datasets
              /\ success_count' = success_count
      ]_vars

\* C11 witness: the file manager has just skipped a path that GridFS held,
\* whose datasets record is INDEXED.
C11_Witness ==
    /\ upload.by = "manager"
    /\ upload.existed
    /\ gridfs[upload.path] = 1
    /\ datasets[upload.path].status = "INDEXED"
    /\ upc = "loop"
    /\ uidx = 3
    /\ success_count = 1

\* ------------------------------------------------------------------------
\* get_env (utils/config.py)
\* ------------------------------------------------------------------------

\* The values os.getenv may return.
EnvironValues == { Unset, "", "os_value" }

\* The contents of the secrets file tried, as the set of its leaves.
SecretFiles ==
    { {<< <<"level1", "level2">>, "secret_value" >>},
      {<< <<"level1", "wrong_key">>, "secret_value" >>},
      {<< <<"level1">>, "leaf" >>},
      {} }

\* The secret_path arguments tried; << >> stands for None and for ().
SecretPaths ==
    { << >>, <<"level1">>, <<"level1", "level2">>,
      <<"level1", "level2", "level3">> }

Defaults == { "None", "default_val" }

InitEnv ==
    /\ IdleChat
    /\ IdleUpload
    /\ IdlePath
    /\ IdleSplit
    /\ IdleStore
    /\ IdleDelete
    /\ IdleIngest
    /\ IdleSearch
    /\ IdleLogin
    /\ environ \in EnvironValues
    /\ \/ secrets_kind = "toml" /\ secrets \in SecretFiles
       \/ secrets_kind \in {"object", "no_file"} /\ secrets = {}
    /\ secret_path \in SecretPaths
    /\ default \in Defaults
    /\ env_ret = NoReturn
    /\ epc = "call"

\* p is a prefix of q.
IsPrefix(p, q) == Len(p) <= Len(q) /\ SubSeq(q, 1, Len(p)) = p

\* The secrets hold a string at p.
IsLeaf(leaves, p) == \E l \in leaves : l[1] = p

\* The secrets hold a table at p.
IsTable(leaves, p) ==
    p = << >> \/ \E l \in leaves : Len(l[1]) > Len(p) /\ IsPrefix(p, l[1])

\* The value at p: the string, or the table.
ValueAt(leaves, p) ==
    IF IsLeaf(leaves, p)
    THEN (CHOOSE l \in leaves : l[1] = p)[2]
    ELSE "<table>"

\* val[k] for val the value at p: the exception it raises, or "None".
Subscript(kind, leaves, p, k) ==
    IF kind = "no_file" THEN "FileNotFoundError"
    ELSE IF kind = "object" THEN "TypeError"
    ELSE IF IsLeaf(leaves, p) THEN "TypeError"
    ELSE IF IsLeaf(leaves, Append(p, k)) \/ IsTable(leaves, Append(p, k))
    THEN "None"
    ELSE "KeyError"

\* Lines 23-25: val = st.secrets; for k in secret_path: val = val[k]
RECURSIVE Walk(_, _, _, _)
Walk(kind, leaves, p, rest) ==
    IF rest = << >>
    THEN [value |-> ValueAt(leaves, p), raised |-> "None"]
    ELSE IF Subscript(kind, leaves, p, Head(rest)) # "None"
    THEN [value |-> "None", raised |-> Subscript(kind, leaves, p, Head(rest))]
    ELSE Walk(kind, leaves, Append(p, Head(rest)), Tail(rest))

\* except (KeyError, FileNotFoundError, AttributeError, TypeError)
Caught == { "KeyError", "FileNotFoundError", "AttributeError", "TypeError" }

\* A test that takes the empty string for no value.
IsSetTruthy(value) == value # Unset /\ value # ""

\* Line 17: value is not None
IsSet(value) == value # Unset

\* Lines 8-30: get_env.
get_env(value, kind, leaves, spath, dflt) ==
    IF IsSet(value)
    THEN [value |-> value, raised |-> "None"]
    ELSE IF spath # << >>
    THEN LET w == Walk(kind, leaves, << >>, spath)
         IN  IF w.raised = "None" THEN w
             ELSE IF w.raised \in Caught
             THEN [value |-> dflt, raised |-> "None"]
             ELSE w
    ELSE [value |-> dflt, raised |-> "None"]

GetEnv ==
    /\ epc = "call"
    /\ env_ret' = get_env(environ, secrets_kind, secrets, secret_path, default)
    /\ epc' = "done"
    /\ UNCHANGED <<environ, secrets_kind, secrets, secret_path, default>>
    /\ UNCHANGED <<splitVars, storeVars, delVars, ingVars, searchVars,
                   loginVars, uplVars, pathVars, chatVars>>

NextEnv == GetEnv

SpecEnv == InitEnv /\ [][NextEnv]_vars

\* ---- Claims about get_env -------------------------------------------------

\* Every key of secret_path resolves in the secrets.
Resolves ==
    /\ secrets_kind = "toml"
    /\ \E l \in secrets : IsPrefix(secret_path, l[1])

\* C13: get_env lets no exception out and returns the environment variable
\* when it is set, even to the empty string; else, when a secret_path is
\* given and every key of it resolves in the secrets, that secret; else the
\* default.
C13_GetEnvPriority ==
    epc = "done" =>
        /\ env_ret.raised = "None"
        /\ env_ret.value =
              IF environ # Unset THEN environ
              ELSE IF secret_path # << >> /\ Resolves
              THEN ValueAt(secrets, secret_path)
              ELSE default

\* C13 witness: the variable is set to the empty string while the secret
\* resolves, and the empty string was returned.
C13_Witness ==
    /\ epc = "done"
    /\ environ = ""
    /\ secret_path # << >>
    /\ Resolves
    /\ env_ret.value = ""

\* ------------------------------------------------------------------------
\* normalize_path (utils/admin_utils.py)
\* ------------------------------------------------------------------------

\* The longest path tried.
MaxPath == 4

\* The characters of the paths tried: a letter, '/' and the backslash.
PathAlphabet == { "a", "/", "\\" }

PathInputs == UNION { [1..n -> PathAlphabet] : n \in 0..MaxPath }

\* str.lstrip(ch)
RECURSIVE LStrip(_, _)
LStrip(cs, ch) ==
    IF cs # << >> /\ Head(cs) = ch THEN LStrip(Tail(cs), ch) ELSE cs

\* str.rstrip(ch)
RECURSIVE RStrip(_, _)
RStrip(cs, ch) ==
    IF cs # << >> /\ cs[Len(cs)] = ch
    THEN RStrip(SubSeq(cs, 1, Len(cs) - 1), ch)
    ELSE cs

\* str.strip(ch)
Strip(cs, ch) == RStrip(LStrip(cs, ch), ch)

\* Line 28: path.strip("/").replace("\\", "/")
normalize_path(cs) == ReplaceChar(Strip(cs, "/"), "\\", "/")

InitPath ==
    /\ IdleChat
    /\ IdleUpload
    /\ IdleEnv
    /\ IdleSplit
    /\ IdleStore
    /\ IdleDelete
    /\ IdleIngest
    /\ IdleSearch
    /\ IdleLogin
    /\ path \in PathInputs
    /\ normalized = << >>
    /\ renormalized = << >>
    /\ npc = "call"

NotPath ==
    UNCHANGED <<splitVars, storeVars, delVars, ingVars, searchVars, loginVars,
                uplVars, envVars, chatVars>>

\* normalize_path(path)
Normalize ==
    /\ npc = "call"
    /\ normalized' = normalize_path(path)
    /\ npc' = "again"
    /\ UNCHANGED <<path, renormalized>>
    /\ NotPath

\* normalize_path applied to its own result.
NormalizeAgain ==
    /\ npc = "again"
    /\ renormalized' = normalize_path(normalized)
    /\ npc' = "done"
    /\ UNCHANGED <<path, normalized>>
    /\ NotPath

NextPath == Normalize \/ NormalizeAgain

SpecPath == InitPath /\ [][NextPath]_vars

\* ---- Claims about normalize_path ------------------------------------------

\* C14: normalize_path returns the path with every backslash replaced by '/'
\* and with no leading or trailing '/', and normalize_path of that result is
\* the result itself.
C14_NormalizeIdempotent ==
    npc = "done" =>
        /\ normalized = Strip(ReplaceChar(path, "\\", "/"), "/")
        /\ \A i \in 1..Len(normalized) : normalized[i] # "\\"
        /\ normalized # << >> =>
              (Head(normalized) # "/" /\ normalized[Len(normalized)] # "/")
        /\ renormalized = normalized

\* ------------------------------------------------------------------------
\* auth_utils.py, as its tests and its callers describe it
\* ------------------------------------------------------------------------

validate_password_strength(pw) == pw \in StrongPasswords

\* (success, role): success only for an existing, verified user with the
\* matching password.
authenticate_user(us, e, pw) ==
    IF us[e] = NoUser THEN <<FALSE, "None">>
    ELSE IF ~us[e].verified THEN <<FALSE, "None">>
    ELSE IF us[e].password # pw THEN <<FALSE, "None">>
    ELSE <<TRUE, us[e].role>>

\* A new code is stored for the user.
trigger_2fa(us, e, code) ==
    IF us[e] = NoUser THEN us ELSE [us EXCEPT ![e].otp = code]

\* True for the stored code.
verify_2fa(us, e, otp) ==
    us[e] # NoUser /\ us[e].otp # NoOtp /\ us[e].otp = otp

\* The code is cleared.
ClearOtp(us, e) == [us EXCEPT ![e].otp = NoOtp]

\* Rejected for a weak password or an existing verified account.
CanCreatePending(us, e, pw) ==
    validate_password_strength(pw) /\ (us[e] = NoUser \/ ~us[e].verified)

create_user_pending(us, e, pw, code) ==
    [us EXCEPT ![e] = UserRec(FALSE, pw, "user", code)]

\* False for no user, a wrong code or an expired one; true for a verified user.
verify_user_otp(us, e, otp, expired) ==
    IF us[e] = NoUser THEN FALSE
    ELSE IF us[e].verified THEN TRUE
    ELSE us[e].otp # NoOtp /\ us[e].otp = otp /\ ~expired

MarkVerified(us, e) ==
    IF us[e].verified THEN us
    ELSE [us EXCEPT ![e].verified = TRUE, ![e].otp = NoOtp]

reset_password_request(us, e) == e \in Emails /\ us[e] # NoUser

reset_password_confirm(us, e, otp, expired) ==
    us[e] # NoUser /\ us[e].otp # NoOtp /\ us[e].otp = otp /\ ~expired

SetPassword(us, e, pw) == [us EXCEPT ![e].password = pw, ![e].otp = NoOtp]

\* utils/config.py: RESTRICTED_EMAILS = [SMTP_EMAIL]
RESTRICTED_EMAILS == { "admin@q" }

send_magic_link(us, e, intent) ==
    /\ e \notin RESTRICTED_EMAILS
    /\ intent = "login" => us[e] # NoUser
    /\ intent = "signup" => us[e] = NoUser

\* The values of the query parameter t: a link made for an address, or a
\* string that is no token.
BadToken == "bad"

Tokens == Emails \cup {BadToken}

\* The addresses verify_magic_link_token may return for a token; "None" for
\* (None, msg): the client not configured, a bad, used or expired token.
verify_magic_link_token(token) ==
    {"None"} \cup (IF token \in Emails THEN {token} ELSE {})

\* A new user is created verified with role "user"; an existing one is kept.
sync_descope_user(us, e) ==
    IF us[e] = NoUser
    THEN [us EXCEPT ![e] = UserRec(TRUE, "None", "user", NoOtp)]
    ELSE us

SyncedRole(us, e) == IF us[e] = NoUser THEN "user" ELSE us[e].role

\* ------------------------------------------------------------------------
\* The session: Home.py and views/login.py
\* ------------------------------------------------------------------------

\* The values typed into the fields.
EmailInputs == Emails \cup {""}

PasswordInputs == StrongPasswords \cup {WeakPassword, ""}

SignupEmails == { "", "user@q", "new@q" }

SignupPasswords == { "", "Str0ng!A", WeakPassword }

ForgotEmails == { "user@q", "new@q" }

NewPasswords == { "Str0ng!B", WeakPassword }

\* A login view is rendered: Home.py runs login.py for a guest, and the part
\* after the token check runs when the query holds no token.
LoginView(mode) ==
    /\ ~authenticated
    /\ query_t = NoToken
    /\ auth_mode = mode

InitLogin ==
    /\ IdleMore
    /\ InitStore
    /\ IdleSplit
    /\ IdleDelete
    /\ IdleIngest
    /\ IdleSearch
    /\ users \in { [e \in Emails |->
                      CASE e = "admin@q" -> UserRec(TRUE, "Str0ng!A", "admin", NoOtp)
                        [] e = "user@q" -> UserRec(TRUE, "Str0ng!A", "user", NoOtp)
                        [] OTHER -> n] :
                   n \in {NoUser, UserRec(FALSE, "Str0ng!A", "user", "111111")} }
    /\ SessionDefaults
    /\ query_t \in Tokens \cup {NoToken}
    /\ shown = "none"
    /\ rendered = "none"
    /\ last = NoCall
    /\ passed_2fa = FALSE
    /\ gridfs = [f \in Files |-> 0]
    /\ datasets = [f \in Files |-> NoDoc]
    /\ ragChunks = {}

\* Home.py lines 160-166: the pages of the admin panel.
AdminPages ==
    { "admin_dashboard", "file_manager", "rag_configuration", "analytics",
      "feedback_review" }

\* The pages of the application.
Pages == AdminPages \cup {"chatbot", "login"}

\* A navigation that offers the admin panel to every authenticated session.
OfferedToAll(auth, r) == IF ~auth THEN {"login"} ELSE AdminPages

\* Home.py lines 127-183: the pages st.navigation is given.
Offered(auth, r) ==
    IF ~auth THEN {"login"}
    ELSE IF r = "admin" THEN AdminPages
    ELSE {"chatbot"}

\* The page marked default=True, which runs when no other is selected.
DefaultPage(r) == IF r = "admin" THEN "admin_dashboard" ELSE "chatbot"

\* What a page renders: an admin page starts with the auth check (e.g.
\* file_manager.py lines 14-20) and stops when it fails.
PageBody(page, auth, r) ==
    IF page \in AdminPages
    THEN IF ~auth THEN "login"
         ELSE IF r # "admin" THEN "unauthorized"
         ELSE page
    ELSE page

\* The handler changes nothing but the message shown.
Stay(msg, call) ==
    /\ shown' = msg
    /\ rendered' = auth_mode
    /\ last' = call
    /\ UNCHANGED passed_2fa
    /\ UNCHANGED <<authenticated, role, auth_mode, temp_email, temp_role,
                   user_email, reset_email, otp_expiry, query_t>>

\* A view that stays where it is after a success.
SuccessModeSame(view) == view

\* Lines 350, 369 and 405: the view switched to after a success.
SuccessMode(view) ==
    CASE view = "verify_signup" -> "login"
      [] view = "forgot" -> "reset_final"
      [] view = "reset_final" -> "login"

\* switch_to(mode) and the rerun.
switch_to(mode, call) ==
    /\ auth_mode' = mode
    /\ shown' = "none"
    /\ rendered' = mode
    /\ last' = call
    /\ UNCHANGED passed_2fa
    /\ UNCHANGED <<authenticated, role, user_email, query_t>>

NotLogin ==
    UNCHANGED <<splitVars, storeVars, delVars, ingVars, searchVars, moreVars>>

\* The browser opens the application: a new session, with or without ?t=.
OpenApp(tok) ==
    /\ authenticated' = FALSE
    /\ role' = "None"
    /\ auth_mode' = "login"
    /\ temp_email' = ""
    /\ temp_role' = "None"
    /\ user_email' = ""
    /\ reset_email' = ""
    /\ otp_expiry' = 0
    /\ query_t' = tok
    /\ shown' = "none"
    /\ rendered' = "none"
    /\ last' = Call("open", "", "", FALSE, "None")
    /\ passed_2fa' = FALSE
    /\ UNCHANGED users
    /\ NotLogin

\* A password login that lets the administrator in like any user.
PasswordLoginNo2FA(success, r) == IF success THEN "in" ELSE "error"

\* A password login that does not look at the result of authenticate_user.
PasswordLoginUnchecked(success, r) == IF r = "admin" THEN "2fa" ELSE "in"

\* Lines 213-227: what the password login does with (success, role).
PasswordLoginOutcome(success, r) ==
    IF success THEN (IF r = "admin" THEN "2fa" ELSE "in") ELSE "error"

\* Lines 208-227: Sign In.
PasswordLogin(email, password) ==
    /\ LoginView("login")
    /\ IF email = "" \/ password = ""
       THEN /\ Stay("warning", Call("sign_in_empty", "", "", FALSE, "None"))
            /\ UNCHANGED users
       ELSE LET res == authenticate_user(users, email, password)
                out == PasswordLoginOutcome(res[1], res[2])
                call == Call("password_login", email, password, res[1], res[2])
            IN  CASE out = "2fa" ->
                     /\ \E code \in Codes : users' = trigger_2fa(users, email, code)
                     /\ temp_email' = email
                     /\ temp_role' = res[2]
                     /\ otp_expiry' = 300
                     /\ switch_to("2fa", call)
                     /\ UNCHANGED reset_email
                  [] out = "in" ->
                     /\ authenticated' = TRUE
                     /\ role' = res[2]
                     /\ user_email' = email
                     /\ shown' = "none"
                     /\ rendered' = DefaultPage(res[2])
                     /\ last' = call
                     /\ UNCHANGED passed_2fa
                     /\ UNCHANGED <<users, auth_mode, temp_email, temp_role,
                                    reset_email, otp_expiry, query_t>>
                  [] OTHER ->
                     /\ Stay("error", call)
                     /\ UNCHANGED users
    /\ NotLogin

\* Lines 229-241: Send Magic Link.
SendMagicLink(email) ==
    /\ LoginView("login")
    /\ IF email = ""
       THEN Stay("warning", Call("send_magic_link", "", "login", FALSE, "None"))
       ELSE \E sent \in {send_magic_link(users, email, "login"), FALSE} :
              Stay(IF sent THEN "success" ELSE "error",
                   Call("send_magic_link", "", "login", sent, "None"))
    /\ UNCHANGED users
    /\ NotLogin

\* Lines 248-253 and 331-332, 354-355, 374-375, 427-428: the buttons that
\* only switch the view.
SwitchButton(from, to) ==
    /\ LoginView(from)
    /\ switch_to(to, Call("switch", "", "", FALSE, "None"))
    /\ UNCHANGED <<users, temp_email, temp_role, reset_email, otp_expiry>>
    /\ NotLogin

ForgotPasswordLink == SwitchButton("login", "forgot")

CreateNewAccount == SwitchButton("login", "signup")

AlreadyHaveAccount == SwitchButton("signup", "login")

BackToSignup == SwitchButton("verify_signup", "signup")

BackToLogin == SwitchButton("forgot", "login")

Cancel2FA == SwitchButton("2fa", "login")

\* Lines 304-317 and 283-294: Sign Up, then I Agree & Verify.
SignupPassword(email, password, same) ==
    /\ LoginView("signup")
    /\ IF email = "" \/ password = ""
       THEN /\ Stay("warning", Call("sign_up", "", "", FALSE, "None"))
            /\ UNCHANGED users
       ELSE IF ~same
       THEN /\ Stay("error", Call("sign_up", "", "", FALSE, "None"))
            /\ UNCHANGED users
       ELSE IF CanCreatePending(users, email, password)
       THEN /\ \E code \in Codes :
                 users' = create_user_pending(users, email, password, code)
            /\ temp_email' = email
            /\ otp_expiry' = 600
            /\ switch_to("verify_signup",
                         Call("sign_up", "", "", TRUE, "None"))
            /\ UNCHANGED <<temp_role, reset_email>>
       ELSE /\ Stay("error", Call("sign_up", "", "", FALSE, "None"))
            /\ UNCHANGED users
    /\ NotLogin

\* Lines 319-328 and 295-302: Sign Up with Magic Link, then I Agree & Verify.
SignupMagicLink(email) ==
    /\ LoginView("signup")
    /\ IF email = ""
       THEN Stay("warning", Call("send_magic_link", "", "signup", FALSE, "None"))
       ELSE \E sent \in {send_magic_link(users, email, "signup"), FALSE} :
              Stay(IF sent THEN "success" ELSE "error",
                   Call("send_magic_link", "", "signup", sent, "None"))
    /\ UNCHANGED users
    /\ NotLogin

\* Lines 344-352: Verify Account.
VerifySignup(otp, expired) ==
    /\ LoginView("verify_signup")
    /\ LET ok == verify_user_otp(users, temp_email, otp, expired)
           call == Call("verify_user_otp", "", "", ok, "None")
       IN  IF ok
           THEN /\ users' = MarkVerified(users, temp_email)
                /\ switch_to(SuccessMode("verify_signup"), call)
                /\ UNCHANGED <<temp_email, temp_role, reset_email, otp_expiry>>
           ELSE /\ Stay("error", call)
                /\ UNCHANGED users
    /\ NotLogin

\* Lines 361-371: Send Reset Link.
ForgotSend(email) ==
    /\ LoginView("forgot")
    /\ LET ok == reset_password_request(users, email)
           call == Call("reset_password_request", "", "", ok, "None")
       IN  IF ok
           THEN /\ \E code \in Codes : users' = [users EXCEPT ![email].otp = code]
                /\ reset_email' = email
                /\ otp_expiry' = 600
                /\ switch_to(SuccessMode("forgot"), call)
                /\ UNCHANGED <<temp_email, temp_role>>
           ELSE /\ Stay("error", call)
                /\ UNCHANGED users
    /\ NotLogin

\* Lines 386-407: Change Password.
ResetFinal(otp, new_pass, same, expired) ==
    /\ LoginView("reset_final")
    /\ LET ok == /\ same
                 /\ validate_password_strength(new_pass)
                 /\ reset_password_confirm(users, reset_email, otp, expired)
           call == Call("reset_password_confirm", "", "", ok, "None")
       IN  IF ok
           THEN /\ users' = SetPassword(users, reset_email, new_pass)
                /\ switch_to(SuccessMode("reset_final"), call)
                /\ UNCHANGED <<temp_email, temp_role, reset_email, otp_expiry>>
           ELSE /\ Stay("error", call)
                /\ UNCHANGED users
    /\ NotLogin

\* Lines 417-425: Verify Login.
Verify2FA(otp) ==
    /\ LoginView("2fa")
    /\ LET ok == verify_2fa(users, temp_email, otp)
           call == Call("verify_2fa", temp_email, otp, ok, temp_role)
       IN  IF ok
           THEN /\ users' = ClearOtp(users, temp_email)
                /\ authenticated' = TRUE
                /\ role' = temp_role
                /\ user_email' = temp_email
                /\ shown' = "none"
                /\ rendered' = DefaultPage(temp_role)
                /\ last' = call
                /\ passed_2fa' = TRUE
                /\ UNCHANGED <<auth_mode, temp_email, temp_role, reset_email,
                               otp_expiry, query_t>>
           ELSE /\ Stay("error", call)
                /\ UNCHANGED users
    /\ NotLogin

\* A token branch that does not look at the result of sync_descope_user.
TokenOutcomeUnsynced(verified, success) == IF verified THEN "in" ELSE "error"

\* Lines 32-50: what the token branch does with the two results.
TokenOutcome(verified, success) ==
    IF verified THEN (IF success THEN "in" ELSE "error") ELSE "error"

\* Lines 25-53: the login page runs with "t" in the query parameters.
MagicLinkToken ==
    /\ ~authenticated
    /\ query_t # NoToken
    /\ \E user_info \in verify_magic_link_token(query_t) : \E success \in BOOLEAN :
         LET verified == user_info # "None"
             synced == verified /\ success
             r == IF synced THEN SyncedRole(users, user_info) ELSE "None"
             call == Call("magic_link_token",
                          IF verified THEN user_info ELSE "", query_t, synced, r)
         IN  /\ users' = IF synced THEN sync_descope_user(users, user_info)
                         ELSE users
             /\ IF TokenOutcome(verified, success) = "in"
                THEN /\ authenticated' = TRUE
                     /\ role' = r
                     /\ user_email' = user_info
                     /\ query_t' = NoToken
                     /\ shown' = "success"
                     /\ rendered' = DefaultPage(r)
                     /\ last' = call
                     /\ UNCHANGED passed_2fa
                     /\ UNCHANGED <<auth_mode, temp_email, temp_role,
                                    reset_email, otp_expiry>>
                ELSE /\ shown' = "error"
                     /\ rendered' = "stopped"
                     /\ last' = call
                     /\ UNCHANGED passed_2fa
                     /\ UNCHANGED <<authenticated, role, auth_mode, temp_email,
                                    temp_role, user_email, reset_email,
                                    otp_expiry, query_t>>
    /\ NotLogin

\* A logout that forgets to reset the role.
LogoutRoleKept == role

\* Home.py line 151 and logout.py line 6: st.session_state.role = None
LogoutRole == "None"

\* Home.py lines 149-153: Log Out.
LogOut ==
    /\ authenticated
    /\ authenticated' = FALSE
    /\ role' = LogoutRole
    /\ auth_mode' = "login"
    /\ shown' = "none"
    /\ rendered' = IF query_t = NoToken THEN "login" ELSE "none"
    /\ last' = Call("log_out", "", "", FALSE, "None")
    /\ UNCHANGED passed_2fa
    /\ UNCHANGED <<users, temp_email, temp_role, user_email, reset_email,
                   otp_expiry, query_t>>
    /\ NotLogin

\* views/logout.py lines 4-10: the logout view, run for an authenticated
\* session; after its rerun Home.py shows the login page.
LogoutView ==
    /\ authenticated
    /\ authenticated' = FALSE
    /\ role' = LogoutRole
    /\ auth_mode' = "login"
    /\ shown' = "info"
    /\ rendered' = IF query_t = NoToken THEN "login" ELSE "none"
    /\ last' = Call("logout_view", "", "", FALSE, "None")
    /\ UNCHANGED passed_2fa
    /\ UNCHANGED <<users, temp_email, temp_role, user_email, reset_email,
                   otp_expiry, query_t>>
    /\ NotLogin

\* An authenticated session asks for a page, from the sidebar or by its URL:
\* a page that is not offered gives the default page.
Navigate(page) ==
    /\ authenticated
    /\ rendered' = PageBody(IF page \in Offered(authenticated, role)
                            THEN page ELSE DefaultPage(role),
                            authenticated, role)
    /\ shown' = IF rendered' = "unauthorized" THEN "error" ELSE "none"
    /\ last' = Call("navigate", "", "", FALSE, "None")
    /\ UNCHANGED passed_2fa
    /\ UNCHANGED <<users, authenticated, role, auth_mode, temp_email,
                   temp_role, user_email, reset_email, otp_expiry, query_t>>
    /\ NotLogin

NextLogin ==
    \/ \E page \in Pages : Navigate(page)
    \/ \E tok \in Tokens \cup {NoToken} : OpenApp(tok)
    \/ \E e \in EmailInputs, pw \in PasswordInputs : PasswordLogin(e, pw)
    \/ \E e \in EmailInputs : SendMagicLink(e)
    \/ ForgotPasswordLink
    \/ CreateNewAccount
    \/ AlreadyHaveAccount
    \/ BackToSignup
    \/ BackToLogin
    \/ Cancel2FA
    \/ \E e \in SignupEmails, pw \in SignupPasswords, same \in BOOLEAN :
            SignupPassword(e, pw, same)
    \/ \E e \in EmailInputs : SignupMagicLink(e)
    \/ \E otp \in Codes, expired \in BOOLEAN : VerifySignup(otp, expired)
    \/ \E e \in ForgotEmails : ForgotSend(e)
    \/ \E otp \in Codes, pw \in NewPasswords, same \in BOOLEAN,
          expired \in BOOLEAN : ResetFinal(otp, pw, same, expired)
    \/ \E otp \in Codes : Verify2FA(otp)
    \/ MagicLinkToken
    \/ LogOut
    \/ LogoutView

SpecLogin == InitLogin /\ [][NextLogin]_vars

\* ---- Claims about the login page ------------------------------------------

\* C5: a password login that authenticate_user accepts for an administrator
\* does not authenticate the session: it stores a 2FA code for the account,
\* sets temp_email and temp_role and moves auth_mode to "2fa". From the 2FA
\* view the session becomes authenticated, with role "admin", exactly when
\* verify_2fa returns true; a wrong code leaves authenticated False and the
\* view unchanged, and Cancel leaves authenticated False and returns to login.
C5_AdminNeeds2FA ==
    [][ /\ (last'.handler = "password_login" /\ last'.ok /\ last'.role = "admin") =>
            /\ ~authenticated'
            /\ role' = "None"
            /\ auth_mode' = "2fa"
            /\ temp_email' = last'.email
            /\ temp_role' = "admin"
            /\ users'[last'.email].otp \in Codes
        /\ last'.handler = "verify_2fa" =>
            /\ authenticated' = last'.ok
            /\ last'.ok => role' = "admin" /\ user_email' = temp_email
            /\ ~last'.ok => role' = "None" /\ auth_mode' = "2fa"
        /\ (LoginView("2fa") /\ authenticated') =>
            (last'.handler = "verify_2fa" /\ last'.ok)
        /\ (LoginView("2fa") /\ last'.handler = "switch") =>
            (~authenticated' /\ role' = "None" /\ auth_mode' = "login")
      ]_vars

\* C5 witness: the administrator got in through the 2FA view.
C5_Witness ==
    /\ last.handler = "verify_2fa"
    /\ last.ok
    /\ authenticated
    /\ role = "admin"
    /\ user_email = "admin@q"

\* C6: after a password login, the session is authenticated only if
\* authenticate_user reported success; it reported success exactly for an
\* existing, verified user with the password typed; after a failure the
\* session is not authenticated, role is None and an error is shown.
C6_PasswordLoginChecked ==
    last.handler = "password_login" =>
        /\ authenticated => last.ok
        /\ last.ok <=> /\ users[last.email] # NoUser
                       /\ users[last.email].verified
                       /\ users[last.email].password = last.arg
        /\ ~last.ok => ~authenticated /\ role = "None" /\ shown = "error"

\* C6 witness: the right password of an account that is not verified was
\* refused.
C6_Witness ==
    /\ last.handler = "password_login"
    /\ ~last.ok
    /\ users[last.email] # NoUser
    /\ ~users[last.email].verified
    /\ users[last.email].password = last.arg
    /\ shown = "error"

\* C7: a run of the login page with a token in the query parameters: when
\* verify_magic_link_token and sync_descope_user both succeed, authenticated
\* becomes True, role becomes the role sync_descope_user returned and the
\* query parameters are cleared; when either fails, authenticated and role
\* keep their values, an error is shown and the run stops before the rest of
\* the page; while the token is in the query, no view of the page handles
\* anything.
C7_TokenLogin ==
    [][ /\ last'.handler = "magic_link_token" =>
            IF last'.ok
            THEN authenticated' /\ role' = last'.role /\ query_t' = NoToken
            ELSE /\ authenticated' = authenticated
                 /\ role' = role
                 /\ shown' = "error"
                 /\ rendered' = "stopped"
        /\ (~authenticated /\ query_t # NoToken) =>
            last'.handler \in {"magic_link_token", "open"}
      ]_vars

\* C7 witness: a token let a user in and the query was cleared.
C7_Witness ==
    /\ last.handler = "magic_link_token"
    /\ last.ok
    /\ authenticated
    /\ role = last.role
    /\ query_t = NoToken

\* C12: a failed verify_user_otp, reset_password_request,
\* reset_password_confirm or verify_2fa leaves auth_mode unchanged; a
\* successful verify_user_otp moves verify_signup to login, a successful
\* reset_password_request moves forgot to reset_final, a successful
\* reset_password_confirm moves reset_final to login; Back moves
\* verify_signup to signup and Back to Login moves forgot to login.
C12_AuthModeTransitions ==
    [][ /\ (/\ last'.handler \in {"verify_user_otp", "reset_password_request",
                                   "reset_password_confirm", "verify_2fa"}
            /\ ~last'.ok) => auth_mode' = auth_mode
        /\ (last'.handler = "verify_user_otp" /\ last'.ok) =>
              (auth_mode = "verify_signup" /\ auth_mode' = "login")
        /\ (last'.handler = "reset_password_request" /\ last'.ok) =>
              (auth_mode = "forgot" /\ auth_mode' = "reset_final")
        /\ (last'.handler = "reset_password_confirm" /\ last'.ok) =>
              (auth_mode = "reset_final" /\ auth_mode' = "login")
        /\ (last'.handler = "switch" /\ auth_mode = "verify_signup") =>
              auth_mode' = "signup"
        /\ (last'.handler = "switch" /\ auth_mode = "forgot") =>
              auth_mode' = "login"
      ]_vars

\* C12 witness: a password was reset and the view is back at login.
C12_Witness ==
    /\ last.handler = "reset_password_confirm"
    /\ last.ok
    /\ auth_mode = "login"
    /\ reset_email # ""
    /\ users[reset_email].password = "Str0ng!B"

\* C15: in every session state the admin pages are offered, and an admin
\* page is rendered, only when authenticated is True and role is "admin"; a
\* session that is not authenticated is offered the login page only and no
\* page of the application is rendered for it; an authenticated session with
\* another role is offered the chatbot only.
C15_AdminPagesForAdminsOnly ==
    /\ (Offered(authenticated, role) \cap AdminPages # {} \/ rendered \in AdminPages)
          => (authenticated /\ role = "admin")
    /\ ~authenticated =>
          (Offered(authenticated, role) = {"login"} /\ rendered \notin Pages \ {"login"})
    /\ (authenticated /\ role # "admin") =>
          (Offered(authenticated, role) = {"chatbot"} /\ rendered = "chatbot")

\* C15 witness: an administrator is on the file manager.
C15_Witness ==
    /\ authenticated
    /\ role = "admin"
    /\ rendered = "file_manager"
    /\ last.handler = "navigate"

\* C18: in every session, authenticated = True together with role = "admin"
\* is reached only after verify_2fa returned true in that session, whichever
\* login path is used (password login or magic-link token).
C18_AdminOnlyAfter2FA ==
    (authenticated /\ role = "admin") => passed_2fa

\* C21: logging out, by the sidebar button or by the logout view, always
\* leaves authenticated False, role None and auth_mode "login"; and in every
\* reachable session state role is None whenever authenticated is False.
C21_LogoutResets ==
    [][ /\ last'.handler \in {"log_out", "logout_view"} =>
            (~authenticated' /\ role' = "None" /\ auth_mode' = "login")
        /\ ~authenticated => role = "None"
        /\ ~authenticated' => role' = "None"
      ]_vars

\* C21 witness: the administrator, in after 2FA, logged out.
C21_Witness ==
    /\ last.handler \in {"log_out", "logout_view"}
    /\ passed_2fa
    /\ user_email = "admin@q"
    /\ ~authenticated
    /\ role = "None"
    /\ auth_mode = "login"

\* ------------------------------------------------------------------------
\* The chatbot page (views/chatbot.py) in a session that logs in and out
\* ------------------------------------------------------------------------

\* A message of st.session_state.messages or of a chat_sessions document.
\* The content is kept as "by", the user whose prompt it is or answers.
Message(r, by) == [role |-> r, by |-> by]

\* Home.py lines 128-183: the chatbot is the page of an authenticated session
\* whose role is not "admin".
ChatPage == authenticated /\ role # "admin"

\* Three verified accounts, no token in the query, nothing in chat_sessions.
InitChat ==
    /\ IdleMore
    /\ InitStore
    /\ IdleSplit
    /\ IdleDelete
    /\ IdleIngest
    /\ IdleSearch
    /\ users = [e \in Emails |->
                  UserRec(TRUE, "Str0ng!A",
                          IF e = "admin@q" THEN "admin" ELSE "user", NoOtp)]
    /\ SessionDefaults
    /\ query_t = NoToken
    /\ shown = "none"
    /\ rendered = "login"
    /\ last = NoCall
    /\ passed_2fa = FALSE
    /\ gridfs = [f \in Files |-> 0]
    /\ datasets = [f \in Files |-> NoDoc]
    /\ ragChunks = {}

NotChat ==
    UNCHANGED <<splitVars, storeVars, delVars, ingVars, searchVars, loginVars,
                uplVars, envVars, pathVars>>

\* Lines 95-99: create_new_chat.
create_new_chat ==
    /\ uuid_next < MaxChats
    /\ current_chat_id' = uuid_next + 1
    /\ uuid_next' = uuid_next + 1
    /\ messages' = <<>>
    /\ temp_mode' = FALSE

\* Lines 484-485: a run of the page with no current chat starts one. It is
\* the run that follows the login, so the widgets below find a chat.
ChatbotRun ==
    /\ ChatPage
    /\ current_chat_id = NoChatId
    /\ create_new_chat
    /\ UNCHANGED chat_sessions
    /\ NotChat

\* Lines 389-391: New Chat.
NewChat ==
    /\ ChatPage
    /\ current_chat_id # NoChatId
    /\ create_new_chat
    /\ UNCHANGED chat_sessions
    /\ NotChat

\* Lines 395-397: the Temp Chat toggle.
ToggleTemp ==
    /\ ChatPage
    /\ current_chat_id # NoChatId
    /\ temp_mode' = ~temp_mode
    /\ UNCHANGED <<current_chat_id, messages, chat_sessions, uuid_next>>
    /\ NotChat

\* Lines 414-419: the chats the sidebar lists.
all_chats ==
    { c \in ChatIds : /\ chat_sessions[c] # NoChat
                      /\ chat_sessions[c].user_email = user_email }

\* Lines 101-109: load_chat, from a button of the list. No document is
\* stored with is_temp True.
load_chat(c) ==
    /\ ChatPage
    /\ current_chat_id # NoChatId
    /\ user_email # ""
    /\ c \in all_chats
    /\ current_chat_id' = c
    /\ messages' = chat_sessions[c].messages
    /\ temp_mode' = FALSE
    /\ UNCHANGED <<chat_sessions, uuid_next>>
    /\ NotChat

\* Lines 111-115: delete_chat, from a popover of the list.
delete_chat(c) ==
    /\ ChatPage
    /\ current_chat_id # NoChatId
    /\ user_email # ""
    /\ c \in all_chats
    /\ chat_sessions' = [chat_sessions EXCEPT ![c] = NoChat]
    /\ IF current_chat_id = c
       THEN create_new_chat
       ELSE UNCHANGED <<current_chat_id, messages, temp_mode, uuid_next>>
    /\ NotChat

\* Lines 578-605 and 788-805: a prompt is appended and saved, with "$set":
\* {"user_email": st.session_state.user_email} and upsert, then the answer
\* is appended and saved; nothing is saved in temp mode.
SendPrompt ==
    /\ ChatPage
    /\ current_chat_id # NoChatId
    /\ Len(messages) < 2 * MaxPrompts
    /\ LET doc == chat_sessions[current_chat_id]
           new == <<Message("user", user_email),
                    Message("assistant", user_email)>>
       IN  /\ messages' = messages \o new
           /\ chat_sessions' =
                IF temp_mode THEN chat_sessions
                ELSE [chat_sessions EXCEPT ![current_chat_id] =
                        [user_email |-> user_email,
                         messages |-> doc.messages \o new]]
    /\ UNCHANGED <<current_chat_id, temp_mode, uuid_next>>
    /\ NotChat

NextChat ==
    \/ \E e \in EmailInputs, pw \in PasswordInputs : PasswordLogin(e, pw)
    \/ \E otp \in Codes : Verify2FA(otp)
    \/ Cancel2FA
    \/ LogOut
    \/ ChatbotRun
    \/ NewChat
    \/ ToggleTemp
    \/ \E c \in ChatIds : load_chat(c)
    \/ \E c \in ChatIds : delete_chat(c)
    \/ SendPrompt

SpecChat == InitChat /\ [][NextChat]_vars

\* C19: across any sequence of login, chat and logout actions in one browser
\* session, the user_email of a chat_sessions document is never changed to a
\* different user once set, and in a session authenticated as a user the
\* messages hold nothing of another user and current_chat_id is not the chat
\* of another user.
C19_ChatIsolation ==
    [][ /\ \A c \in ChatIds :
              (chat_sessions[c] # NoChat /\ chat_sessions'[c] # NoChat) =>
                  chat_sessions'[c].user_email = chat_sessions[c].user_email
        /\ (authenticated' /\ role' = "user") =>
              /\ \A i \in 1..Len(messages') : messages'[i].by = user_email'
              /\ (/\ current_chat_id' # NoChatId
                  /\ chat_sessions'[current_chat_id'] # NoChat) =>
                    chat_sessions'[current_chat_id'].user_email = user_email'
      ]_vars

\* ------------------------------------------------------------------------
\* delete_files (utils/admin_utils.py) called while run_ingestion_pipeline
\* (rag_ingestion.py) is processing the file
\* ------------------------------------------------------------------------

\* An ingestion run about to start with at most one local file, and no
\* delete_files call yet.
InitRace ==
    /\ IdleMore
    /\ InitStore
    /\ IdleSplit
    /\ IdleDelete
    /\ IdleLogin
    /\ searchIndex = NoIndex
    /\ IdleQuery
    /\ localFiles \in { {} } \cup { {f} : f \in Files }
    /\ target_files_set \in { {}, {"Quran/s.1.txt"} }
    /\ ipc = "start"
    /\ scanned = {}
    /\ files_to_process = << >>
    /\ fidx = 1
    /\ cidx = 0
    /\ vectors_to_insert = << >>
    /\ status_docs = {}
    /\ embedCalls = {}
    /\ insertedDocs = {}
    /\ issued = {}

\* The file manager calls delete_files([rel_path]) while the run is between
\* the PENDING upsert of rel_path and the end of
\* process_and_insert_document(rel_path).
DeleteFilesCalled ==
    /\ dpc = "idle"
    /\ ipc \in {"extract", "embed", "insert", "update"}
    /\ file_paths_to_delete' = <<rel_path>>
    /\ ragConf' \in {"ok", "unset", "raises"}
    /\ dpc' = "connect"
    /\ UNCHANGED <<didx, db_rag, gridfs_file, deleted_count, errors, raised,
                   entered, atCall>>
    /\ UNCHANGED <<splitVars, storeVars, ingVars, searchVars, loginVars, moreVars>>

\* The two programs share the databases and nothing else: their steps
\* interleave freely.
NextRace ==
    \/ DeleteFilesCalled
    \/ NextDelete
    \/ NextIngest

SpecRace == InitRace /\ [][NextRace]_vars

\* C22: when delete_files runs for a file while an ingestion run is
\* processing that same file, in every interleaving, once both have finished
\* there is no ragChunks document with that file as metadata.source and no
\* datasets record for that file. Stated for the calls that reached the RAG
\* database and in which no step raised.
C22_DeletedStaysDeleted ==
    (dpc = "done" /\ ipc = "done" /\ db_rag /\ raised = {}) =>
        \A k \in 1..Len(file_paths_to_delete) :
            /\ ChunksOf(file_paths_to_delete[k]) = {}
            /\ datasets[file_paths_to_delete[k]] = NoDoc

====
